---- MODULE Spec2Model ----
(***************************************************************************)
(* IT service desk core: the workflow coordinator                          *)
(* (src/agents/orchestration/workflow_coordinator.py), the authorization   *)
(* gate (src/it_service_desk_agent/security/registry.py), the intent       *)
(* router (src/it_service_desk_agent/orchestration/router.py) and the      *)
(* default agents (src/it_service_desk_agent/agents/).                     *)
(*                                                                         *)
(* Four specifications share the variables:                                *)
(*   Spec         one run of WorkflowCoordinator.execute_workflow          *)
(*   AuthSpec     calls of authorize, get_policy and list_policies         *)
(*   RouterSpec   AgentRouter.register_agent and AgentRouter.route calls   *)
(*   HandlerSpec  handle calls of the three default agents                 *)
(***************************************************************************)
EXTENDS Integers, Sequences, FiniteSets, TLC

(***************************************************************************)
(* Bounds of the model.                                                    *)
(***************************************************************************)
\* number of tasks of the workflow handed to execute_workflow
NumTasks == 3
\* largest total number of dependency entries over all tasks of a workflow
MaxDeps == 2
\* longest supported_intents list of an agent
MaxIntents == 2
\* register_agent calls made on one router
MaxRegistrations == 2
\* authorize calls made in one behaviour
MaxAuthCalls == 2
\* audit records kept of one behaviour
MaxAuditRecords == 2
\* execute_workflow calls made on one coordinator
MaxRuns == 2

VARIABLES
    \* ---- WorkflowDefinition / WorkflowTask fields
    dependencies,           \* task.dependencies, per task: a set of ids
    requires_confirmation,  \* task.requires_confirmation, per task
    status,                 \* task.status, per task
    \* ---- arguments and locals of execute_workflow
    confirmation_callback,  \* TRUE: a callback was supplied; FALSE: None
    results_status,         \* results["status"]
    results_error,          \* results["error"] ("none": key absent)
    results_tasks,          \* results["tasks"], per task ("none": no entry)
    \* ---- control state
    wpc,                    \* position of execute_workflow
    wave,                   \* the ready list handed to _execute_tasks_parallel
    passes,                 \* iterations of the while loop entered so far
    tpc,                    \* position of each _execute_single_task coroutine
    \* ---- call log of the two external collaborators
    query_calls,            \* orchestrator.query invocations, per task
    callback_calls,         \* confirmation_callback invocations, per task
    callback_answer,        \* what the callback returned, per task
    \* ---- security/registry.py
    POLICIES,               \* the module-level _POLICIES dict
    auth_operation,         \* arguments of the authorize call
    auth_roles,             \* user.roles
    auth_risk_level,
    auth_approved,
    auth_outcome,           \* "OK" (returned) or the AuthorizationError code
    auth_calls,             \* authorize calls made so far
    auth_first_outcome,     \* outcome of the first of these calls
    registry_result,        \* what the latest other registry call gave back
    \* ---- orchestration/router.py
    supported_intents,      \* agent.supported_intents, per agent
    intent_map,             \* AgentRouter._intent_map: intent -> agent
    intent_keys,            \* the keys of _intent_map in insertion order
    register_log,           \* one record per register_agent call
    route_result,           \* what the latest router call, if a route, did
    \* ---- agents/identity_agent.py, device_agent.py, ticket_agent.py
    handle_result,          \* what the latest handle call of an agent did
    audit_records,          \* outcomes of the records AuditLogger produced
    \* ---- WorkflowCoordinator.active_workflows and the runs that share it
    active_workflows,       \* workflow_id -> the run whose workflow is stored
    runs,                   \* per execute_workflow call: id, position, exit
    report_result,          \* what the latest generate_workflow_report found
    \* ---- entrypoint.py
    _settings,              \* the module global _settings
    _router,                \* the module global _router
    entry_result            \* what the latest entry-point call did

wfvars == <<dependencies, requires_confirmation, status, confirmation_callback,
            results_status, results_error, results_tasks, wpc, wave, passes,
            tpc, query_calls, callback_calls, callback_answer>>

authvars == <<POLICIES, auth_operation, auth_roles, auth_risk_level,
              auth_approved, auth_outcome, auth_calls, auth_first_outcome,
              registry_result>>

routervars == <<supported_intents, intent_map, intent_keys, register_log,
                route_result>>

handlervars == <<handle_result, audit_records>>

activevars == <<active_workflows, runs, report_result>>

entryvars == <<_settings, _router, entry_result>>

vars == <<wfvars, authvars, routervars, handlervars, activevars, entryvars>>

\* the value of the variables of a component that takes no part in a
\* specification: its module is not loaded, its objects are not constructed
NotInUse == "not_in_use"

(***************************************************************************)
(* Workflow coordinator                                                    *)
(***************************************************************************)
\* task ids, in the order of workflow.tasks
Tasks == 1..NumTasks
\* ids a dependency list may hold: the tasks, and 0, an id that names no task
DepIds == 0..NumTasks
workflow_tasks == [i \in 1..NumTasks |-> i]

PENDING == "pending"
IN_PROGRESS == "in_progress"
COMPLETED == "completed"
FAILED == "failed"
SKIPPED == "skipped"
TaskStatus == {PENDING, IN_PROGRESS, COMPLETED, FAILED, SKIPPED}

WorkflowStatus_IN_PROGRESS == "in_progress"
WorkflowStatus_COMPLETED == "completed"
WorkflowStatus_PARTIALLY_COMPLETED == "partially_completed"
WorkflowStatus_FAILED == "failed"

DeadlockError == "Workflow deadlock: No tasks can proceed"

\* task_map = {task.task_id: task for task in workflow.tasks}: its key set
task_map == Tasks

\* WorkflowTemplates.password_reset_and_verify: 1 check_user,
\* 2 reset_password, 3 verify_signin
password_reset_deps == [t \in Tasks |-> IF t = 2 THEN {1} ELSE IF t = 3 THEN {2} ELSE {}]
password_reset_confirmation == [t \in Tasks |-> t = 2]

\* dependencies_met that only rules out failed dependencies
dependencies_met_unless_failed(t) ==
    \A dep_id \in dependencies[t] :
        dep_id \in task_map => status[dep_id] # FAILED

\* dependencies_met that holds for every task
dependencies_met_always(t) == TRUE

\* dependencies_met without the filter of line 271: an id outside task_map
\* counts as a dependency that is not completed
dependencies_met_strict(t) ==
    \A dep_id \in dependencies[t] :
        dep_id \in task_map /\ status[dep_id] = COMPLETED

\* dependencies_met of _get_ready_tasks: ids outside task_map are filtered out
dependencies_met(t) ==
    \A dep_id \in dependencies[t] :
        dep_id \in task_map => status[dep_id] = COMPLETED

\* _get_ready_tasks that hands out one ready task per pass
get_ready_tasks_first_only ==
    LET ready == SelectSeq(workflow_tasks,
                           LAMBDA t : status[t] = PENDING /\ dependencies_met(t))
    IN IF ready = <<>> THEN <<>> ELSE <<Head(ready)>>

\* _get_ready_tasks without the status test of line 264
get_ready_tasks_any_status ==
    SelectSeq(workflow_tasks, LAMBDA t : dependencies_met(t))

get_ready_tasks ==
    SelectSeq(workflow_tasks,
              LAMBDA t : status[t] = PENDING /\ dependencies_met(t))

all_tasks_done == \A t \in Tasks : status[t] \in {COMPLETED, FAILED, SKIPPED}

\* _has_pending_tasks that never finds one
has_pending_tasks_never == FALSE

has_pending_tasks == \E t \in Tasks : status[t] = PENDING

\* _skip_dependent_tasks that marks nothing
skip_dependent_tasks_noop(failed_task_id, st) == st

\* _skip_dependent_tasks that puts the failed task back to pending, for a
\* retry
skip_dependent_tasks_retry(failed_task_id, st) ==
    [st EXCEPT ![failed_task_id] = PENDING]

\* _skip_dependent_tasks that gives up every task still pending
skip_dependent_tasks_all_pending(failed_task_id, st) ==
    [t \in Tasks |-> IF st[t] = PENDING THEN SKIPPED ELSE st[t]]

\* task statuses after _skip_dependent_tasks(failed_task_id), given the
\* statuses st at the call
skip_dependent_tasks(failed_task_id, st) ==
    [t \in Tasks |->
        IF failed_task_id \in dependencies[t] /\ st[t] = PENDING
        THEN SKIPPED ELSE st[t]]

completed_count == Cardinality({t \in Tasks : status[t] = COMPLETED})
total_count == NumTasks

\* lines 149-154 keeping the FAILED that line 124 sets on a deadlock
final_status_failed_on_error ==
    IF get_ready_tasks = <<>> /\ has_pending_tasks
    THEN WorkflowStatus_FAILED
    ELSE IF completed_count = total_count THEN WorkflowStatus_COMPLETED
    ELSE IF completed_count > 0 THEN WorkflowStatus_PARTIALLY_COMPLETED
    ELSE WorkflowStatus_FAILED

\* lines 149-154
final_status ==
    IF completed_count = total_count THEN WorkflowStatus_COMPLETED
    ELSE IF completed_count > 0 THEN WorkflowStatus_PARTIALLY_COMPLETED
    ELSE WorkflowStatus_FAILED

\* the loop head reached as soon as one coroutine of the wave has finished
AtLoopHead_first_completed ==
    \/ wpc = "start"
    \/ wpc = "gather" /\ \E i \in 1..Len(wave) : tpc[wave[i]] = "done"

\* execute_workflow is at the top of its while loop: at entry, or resumed
\* from asyncio.gather once every coroutine of the wave has finished
AtLoopHead ==
    \/ wpc = "start"
    \/ wpc = "gather" /\ \A i \in 1..Len(wave) : tpc[wave[i]] = "done"

WorkflowInit ==
    \* every dependency assignment of at most MaxDeps entries, built from
    \* the list of its (task, id) entries
    /\ \E entries \in UNION {[1..n -> Tasks \X DepIds] : n \in 0..MaxDeps} :
          dependencies =
             [t \in Tasks |->
                 {entries[i][2] : i \in {j \in 1..Len(entries) :
                                            entries[j][1] = t}}]
    /\ requires_confirmation \in [Tasks -> BOOLEAN]
    /\ confirmation_callback \in BOOLEAN
    /\ status = [t \in Tasks |-> PENDING]
    /\ results_status = "not_started"
    /\ results_error = "none"
    /\ results_tasks = [t \in Tasks |-> "none"]
    /\ wpc = "start"
    /\ wave = <<>>
    /\ passes = 0
    /\ tpc = [t \in Tasks |-> "idle"]
    /\ query_calls = [t \in Tasks |-> 0]
    /\ callback_calls = [t \in Tasks |-> 0]
    /\ callback_answer = [t \in Tasks |-> "none"]

\* lines 116-136, a pass that finds ready tasks: _execute_tasks_parallel
\* wraps one coroutine per ready task and awaits asyncio.gather
StartWave ==
    /\ AtLoopHead
    /\ ~all_tasks_done
    /\ get_ready_tasks # <<>>
    /\ wave' = get_ready_tasks
    /\ tpc' = [t \in Tasks |->
                 IF \E i \in 1..Len(get_ready_tasks) : get_ready_tasks[i] = t
                 THEN "scheduled" ELSE tpc[t]]
    /\ wpc' = "gather"
    /\ passes' = passes + 1
    /\ results_status' = WorkflowStatus_IN_PROGRESS
    /\ UNCHANGED <<authvars, routervars, handlervars, activevars, entryvars, dependencies, requires_confirmation, status,
                   confirmation_callback, results_error, results_tasks,
                   query_calls, callback_calls, callback_answer>>

\* lines 120-126 then 138-161: no ready task while one is pending
WorkflowDeadlock ==
    /\ AtLoopHead
    /\ ~all_tasks_done
    /\ get_ready_tasks = <<>>
    /\ has_pending_tasks
    /\ results_error' = DeadlockError
    \* line 124 sets FAILED; lines 149-154 then assign the derived status
    /\ results_status' = final_status
    /\ wpc' = "returned"
    /\ passes' = passes + 1
    /\ UNCHANGED <<authvars, routervars, handlervars, activevars, entryvars, dependencies, requires_confirmation, status,
                   confirmation_callback, results_tasks, wave, tpc,
                   query_calls, callback_calls, callback_answer>>

\* the loop ends (line 116, or line 128) and lines 138-161 build the report
WorkflowReturn ==
    /\ AtLoopHead
    /\ IF all_tasks_done THEN TRUE
       ELSE get_ready_tasks = <<>> /\ ~has_pending_tasks
    /\ results_status' = final_status
    /\ wpc' = "returned"
    \* the break of line 128 ends a pass that was entered; a false loop
    \* condition enters none
    /\ passes' = IF all_tasks_done THEN passes ELSE passes + 1
    /\ UNCHANGED <<authvars, routervars, handlervars, activevars, entryvars, dependencies, requires_confirmation, status,
                   confirmation_callback, results_error, results_tasks, wave,
                   tpc, query_calls, callback_calls, callback_answer>>

\* lines 199-212 / 224-229: the coroutine's first segment, up to its first
\* await. The event loop starts the coroutines of a gather in list order.
TaskStart(t) ==
    /\ wpc = "gather"
    /\ tpc[t] = "scheduled"
    /\ \A i \in 1..Len(wave) :
          wave[i] = t => \A j \in 1..(i - 1) : tpc[wave[j]] # "scheduled"
    /\ status' = [status EXCEPT ![t] = IN_PROGRESS]
    /\ IF requires_confirmation[t] /\ confirmation_callback
       THEN /\ tpc' = [tpc EXCEPT ![t] = "confirm"]
            /\ callback_calls' = [callback_calls EXCEPT ![t] = @ + 1]
            /\ UNCHANGED query_calls
       ELSE /\ tpc' = [tpc EXCEPT ![t] = "query"]
            /\ query_calls' = [query_calls EXCEPT ![t] = @ + 1]
            /\ UNCHANGED callback_calls
    /\ UNCHANGED <<authvars, routervars, handlervars, activevars, entryvars, dependencies, requires_confirmation, confirmation_callback, passes,
                   results_status, results_error, results_tasks, wpc, wave,
                   callback_answer>>

\* line 214 with the decline never taken
user_declined_never(confirmed) == FALSE

\* line 214: not confirmed
user_declined(confirmed) == ~confirmed

\* lines 212-229: the callback returns `confirmed`
ConfirmReturn(t, confirmed) ==
    /\ tpc[t] = "confirm"
    /\ callback_answer' = [callback_answer EXCEPT ![t] =
                              IF confirmed THEN "yes" ELSE "no"]
    /\ IF user_declined(confirmed)
       THEN /\ status' = [status EXCEPT ![t] = SKIPPED]
            /\ results_tasks' = [results_tasks EXCEPT ![t] = "skipped"]
            /\ tpc' = [tpc EXCEPT ![t] = "done"]
            /\ UNCHANGED query_calls
       ELSE /\ tpc' = [tpc EXCEPT ![t] = "query"]
            /\ query_calls' = [query_calls EXCEPT ![t] = @ + 1]
            /\ UNCHANGED <<status, results_tasks>>
    /\ UNCHANGED <<authvars, routervars, handlervars, activevars, entryvars, dependencies, requires_confirmation, confirmation_callback, passes,
                   results_status, results_error, wpc, wave, callback_calls>>

\* lines 241-253: the except branch
TaskFailed(t) ==
    /\ status' = skip_dependent_tasks(t, [status EXCEPT ![t] = FAILED])
    /\ results_tasks' = [results_tasks EXCEPT ![t] = "failed"]
    /\ tpc' = [tpc EXCEPT ![t] = "done"]

\* line 212 raises
ConfirmRaise(t) ==
    /\ tpc[t] = "confirm"
    /\ callback_answer' = [callback_answer EXCEPT ![t] = "raised"]
    /\ TaskFailed(t)
    /\ UNCHANGED <<authvars, routervars, handlervars, activevars, entryvars, dependencies, requires_confirmation, confirmation_callback, passes,
                   results_status, results_error, wpc, wave, query_calls,
                   callback_calls>>

\* lines 227-239: orchestrator.query returns
QueryReturn(t) ==
    /\ tpc[t] = "query"
    /\ status' = [status EXCEPT ![t] = COMPLETED]
    /\ results_tasks' = [results_tasks EXCEPT ![t] = "completed"]
    /\ tpc' = [tpc EXCEPT ![t] = "done"]
    /\ UNCHANGED <<authvars, routervars, handlervars, activevars, entryvars, dependencies, requires_confirmation, confirmation_callback, passes,
                   results_status, results_error, wpc, wave, query_calls,
                   callback_calls, callback_answer>>

\* line 227 raises
QueryRaise(t) ==
    /\ tpc[t] = "query"
    /\ TaskFailed(t)
    /\ UNCHANGED <<authvars, routervars, handlervars, activevars, entryvars, dependencies, requires_confirmation, confirmation_callback, passes,
                   results_status, results_error, wpc, wave, query_calls,
                   callback_calls, callback_answer>>

\* no WorkflowCoordinator is constructed
WorkflowIdle ==
    /\ dependencies = NotInUse
    /\ requires_confirmation = NotInUse
    /\ confirmation_callback = NotInUse
    /\ status = NotInUse
    /\ results_status = NotInUse
    /\ results_error = NotInUse
    /\ results_tasks = NotInUse
    /\ wpc = NotInUse
    /\ wave = NotInUse
    /\ passes = NotInUse
    /\ tpc = NotInUse
    /\ query_calls = NotInUse
    /\ callback_calls = NotInUse
    /\ callback_answer = NotInUse

(***************************************************************************)
(* active_workflows of one coordinator shared by several runs              *)
(***************************************************************************)
Runs == 1..MaxRuns
\* workflow ids: f"pwd_reset_{user_email}" for two users
WorkflowIds == {"pwd_reset_a", "pwd_reset_b"}
NoRun == [workflow_id |-> "none", pc |-> "not_called", exit |-> "none"]
NoReport == [workflow_id |-> "none", found |-> FALSE]
\* how a run leaves: line 161 after the loop ended, line 161 after the
\* deadlock break, line 167 from the except branch
ExitPaths == {"normal", "deadlock", "exception"}

\* WorkflowCoordinator.__init__ and no call yet
ActiveInit ==
    /\ active_workflows = <<>>
    /\ runs = [r \in Runs |-> NoRun]
    /\ report_result = NoReport

\* the coordinator's registry is not under watch
ActiveIdle ==
    /\ active_workflows = NotInUse
    /\ runs = NotInUse
    /\ report_result = NotInUse

\* lines 97-131: call r of execute_workflow stores its workflow under the
\* workflow's id and runs on to the first await
execute_workflow_enter(r, workflow_id) ==
    /\ runs[r].pc = "not_called"
    /\ active_workflows' =
          [id \in DOMAIN active_workflows \cup {workflow_id} |->
              IF id = workflow_id THEN r ELSE active_workflows[id]]
    /\ runs' = [runs EXCEPT ![r] = [workflow_id |-> workflow_id,
                                    pc |-> "running", exit |-> "none"]]
    /\ UNCHANGED <<report_result, wfvars, authvars, routervars, handlervars,
                   entryvars>>

\* lines 138-171: call r resumes from its last await and leaves; the finally
\* clause runs on every path
execute_workflow_exit(r, path) ==
    /\ runs[r].pc = "running"
    /\ active_workflows' =
          IF runs[r].workflow_id \in DOMAIN active_workflows
          THEN [id \in DOMAIN active_workflows \ {runs[r].workflow_id} |->
                   active_workflows[id]]
          ELSE active_workflows
    /\ runs' = [runs EXCEPT ![r].pc = "returned", ![r].exit = path]
    /\ UNCHANGED <<report_result, wfvars, authvars, routervars, handlervars,
                   entryvars>>

\* lines 307-312: the lookup generate_workflow_report starts with
generate_workflow_report(workflow_id) ==
    /\ report_result' =
          [workflow_id |-> workflow_id,
           found |-> workflow_id \in DOMAIN active_workflows]
    /\ UNCHANGED <<active_workflows, runs, wfvars, authvars, routervars,
                   handlervars, entryvars>>

(***************************************************************************)
(* Policy registry and authorization gate                                  *)
(***************************************************************************)
OperationPolicy(roles, min, approval) ==
    [required_roles |-> roles, min_risk_level |-> min,
     requires_approval |-> approval]

helpdesk_admin_viewer == {"it_helpdesk", "it_admin", "viewer"}
helpdesk_admin == {"it_helpdesk", "it_admin"}
admin_only == {"it_admin"}

\* the _POLICIES literal
policy_registry ==
    "ad.user.lookup" :> OperationPolicy(helpdesk_admin_viewer, "low", FALSE)
 @@ "ad.password.reset" :> OperationPolicy(helpdesk_admin, "medium", TRUE)
 @@ "ad.account.unlock" :> OperationPolicy(helpdesk_admin, "low", FALSE)
 @@ "ad.laps.retrieve" :> OperationPolicy(admin_only, "high", TRUE)
 @@ "ad.bitlocker.retrieve" :> OperationPolicy(helpdesk_admin, "medium", TRUE)
 @@ "graph.user.get" :> OperationPolicy(helpdesk_admin_viewer, "low", FALSE)
 @@ "graph.license.assign" :> OperationPolicy(admin_only, "medium", TRUE)
 @@ "graph.license.remove" :> OperationPolicy(admin_only, "medium", TRUE)
 @@ "graph.group.add_member" :> OperationPolicy(admin_only, "medium", TRUE)
 @@ "servicenow.incident.search" :> OperationPolicy(helpdesk_admin_viewer, "low", FALSE)
 @@ "servicenow.incident.create" :> OperationPolicy(helpdesk_admin, "low", FALSE)
 @@ "servicenow.incident.resolve" :> OperationPolicy(helpdesk_admin, "low", FALSE)
 @@ "intune.device.get" :> OperationPolicy(helpdesk_admin_viewer, "low", FALSE)
 @@ "intune.device.sync" :> OperationPolicy(helpdesk_admin, "low", FALSE)
 @@ "intune.device.restart" :> OperationPolicy(helpdesk_admin, "medium", TRUE)
 @@ "intune.device.wipe" :> OperationPolicy(admin_only, "critical", TRUE)

RiskLevel == {"low", "medium", "high", "critical"}

\* line 157
risk_map == "low" :> 1 @@ "medium" :> 2 @@ "high" :> 3 @@ "critical" :> 4

\* the operation names authorize is called with: every registered one and
\* one that has no policy
Operations == DOMAIN policy_registry \cup {"nonexistent.operation"}
\* the role labels a principal may carry: those the policies name and one
\* that no policy names
Roles == {"it_helpdesk", "it_admin", "viewer", "guest"}

\* the gate with the risk check placed before the role check
authorize_risk_before_roles(operation, user_roles, risk_level, approved) ==
    IF operation \notin DOMAIN POLICIES THEN "POLICY_NOT_FOUND"
    ELSE LET policy == POLICIES[operation] IN
         IF risk_map[risk_level] < risk_map[policy.min_risk_level]
         THEN "INSUFFICIENT_RISK_LEVEL"
         ELSE IF ~(\E role \in policy.required_roles : role \in user_roles)
         THEN "INSUFFICIENT_ROLES"
         ELSE IF policy.requires_approval /\ ~approved
         THEN "APPROVAL_REQUIRED"
         ELSE "OK"

\* the gate comparing the risk with <= instead of <
authorize_risk_off_by_one(operation, user_roles, risk_level, approved) ==
    IF operation \notin DOMAIN POLICIES THEN "POLICY_NOT_FOUND"
    ELSE LET policy == POLICIES[operation] IN
         IF ~(\E role \in policy.required_roles : role \in user_roles)
         THEN "INSUFFICIENT_ROLES"
         ELSE IF risk_map[risk_level] <= risk_map[policy.min_risk_level]
         THEN "INSUFFICIENT_RISK_LEVEL"
         ELSE IF policy.requires_approval /\ ~approved
         THEN "APPROVAL_REQUIRED"
         ELSE "OK"

\* authorize: "OK" when it returns, else the code of the error it raises
authorize(operation, user_roles, risk_level, approved) ==
    IF operation \notin DOMAIN POLICIES THEN "POLICY_NOT_FOUND"
    ELSE LET policy == POLICIES[operation] IN
         IF ~(\E role \in policy.required_roles : role \in user_roles)
         THEN "INSUFFICIENT_ROLES"
         ELSE IF risk_map[risk_level] < risk_map[policy.min_risk_level]
         THEN "INSUFFICIENT_RISK_LEVEL"
         ELSE IF policy.requires_approval /\ ~approved
         THEN "APPROVAL_REQUIRED"
         ELSE "OK"

\* no registry call besides the authorize calls under watch was made yet
NoRegistryCall ==
    [kind |-> "none", operation |-> "none", outcome |-> "none", names |-> {}]

\* arguments of the registry calls made in between
OtherOperations ==
    {"ad.user.lookup", "intune.device.wipe", "nonexistent.operation"}
OtherRoles == {{}, {"it_admin"}}
OtherRiskLevels == {"low", "critical"}

AuthInit ==
    /\ POLICIES = policy_registry
    /\ auth_operation \in Operations
    /\ auth_roles \in SUBSET Roles
    /\ auth_risk_level \in RiskLevel
    /\ auth_approved \in BOOLEAN
    /\ auth_outcome = "not_called"
    /\ auth_calls = 0
    /\ auth_first_outcome = "not_called"
    /\ registry_result = NoRegistryCall

\* security/registry.py is not imported
AuthIdle ==
    /\ POLICIES = NotInUse
    /\ auth_operation = NotInUse
    /\ auth_roles = NotInUse
    /\ auth_risk_level = NotInUse
    /\ auth_approved = NotInUse
    /\ auth_outcome = NotInUse
    /\ auth_calls = NotInUse
    /\ auth_first_outcome = NotInUse
    /\ registry_result = NotInUse

\* security/registry.py is imported and no call of it is watched
RegistryLoaded ==
    /\ POLICIES = policy_registry
    /\ auth_operation = NotInUse
    /\ auth_roles = NotInUse
    /\ auth_risk_level = NotInUse
    /\ auth_approved = NotInUse
    /\ auth_outcome = NotInUse
    /\ auth_calls = NotInUse
    /\ auth_first_outcome = NotInUse
    /\ registry_result = NotInUse

\* one call authorize(auth_operation, user, auth_risk_level, auth_approved)
AuthorizeCall ==
    /\ auth_calls < MaxAuthCalls
    /\ auth_outcome' = authorize(auth_operation, auth_roles, auth_risk_level,
                                 auth_approved)
    /\ auth_calls' = auth_calls + 1
    /\ auth_first_outcome' =
          IF auth_calls = 0
          THEN authorize(auth_operation, auth_roles, auth_risk_level,
                         auth_approved)
          ELSE auth_first_outcome
    /\ UNCHANGED <<POLICIES, auth_operation, auth_roles, auth_risk_level,
                   auth_approved, registry_result, wfvars, routervars,
                   handlervars, activevars, entryvars>>

\* another authorize call, on arguments of its own
authorize_other(operation, user_roles, risk_level, approved) ==
    /\ registry_result' =
          [kind |-> "authorize", operation |-> operation,
           outcome |-> authorize(operation, user_roles, risk_level, approved),
           names |-> {}]
    /\ UNCHANGED <<POLICIES, auth_operation, auth_roles, auth_risk_level,
                   auth_approved, auth_outcome, auth_calls,
                   auth_first_outcome, wfvars, routervars,
                   handlervars, activevars, entryvars>>

\* get_policy with _POLICIES.pop in place of _POLICIES.get
get_policy_pop(operation) ==
    /\ registry_result' =
          IF operation \in DOMAIN POLICIES
          THEN [kind |-> "get_policy", operation |-> operation,
                outcome |-> "returned", names |-> {operation}]
          ELSE [kind |-> "get_policy", operation |-> operation,
                outcome |-> "POLICY_NOT_FOUND", names |-> {}]
    /\ POLICIES' = [o \in DOMAIN POLICIES \ {operation} |-> POLICIES[o]]
    /\ UNCHANGED <<auth_operation, auth_roles, auth_risk_level,
                   auth_approved, auth_outcome, auth_calls,
                   auth_first_outcome, wfvars, routervars,
                   handlervars, activevars, entryvars>>

\* get_policy(operation): the policy, or AuthorizationError POLICY_NOT_FOUND
get_policy(operation) ==
    /\ registry_result' =
          IF operation \in DOMAIN POLICIES
          THEN [kind |-> "get_policy", operation |-> operation,
                outcome |-> "returned", names |-> {operation}]
          ELSE [kind |-> "get_policy", operation |-> operation,
                outcome |-> "POLICY_NOT_FOUND", names |-> {}]
    /\ UNCHANGED <<POLICIES, auth_operation, auth_roles, auth_risk_level,
                   auth_approved, auth_outcome, auth_calls,
                   auth_first_outcome, wfvars, routervars,
                   handlervars, activevars, entryvars>>

\* list_policies(): a copy of _POLICIES
list_policies ==
    /\ registry_result' =
          [kind |-> "list_policies", operation |-> "none",
           outcome |-> "returned", names |-> DOMAIN POLICIES]
    /\ UNCHANGED <<POLICIES, auth_operation, auth_roles, auth_risk_level,
                   auth_approved, auth_outcome, auth_calls,
                   auth_first_outcome, wfvars, routervars,
                   handlervars, activevars, entryvars>>

(***************************************************************************)
(* Intent router                                                           *)
(***************************************************************************)
Agents == {"h1", "h2", "h3"}
Intents == {"i1", "i2"}
NoAgent == "none"
NoIntent == "none"

\* the supported_intents lists an agent may declare (a List[str]: nothing
\* keeps an agent from listing an intent twice)
IntentLists == UNION {[1..n -> Intents] : n \in 1..MaxIntents}

\* line 49 with the membership test left out
intent_claimed_never(map, intent) == FALSE

\* line 49: intent in self._intent_map
intent_claimed(map, intent) == map[intent] # NoAgent

\* lines 48-55: the loop from position i on, over the map built so far
RECURSIVE register_loop(_, _, _, _, _)
register_loop(map, keys, agent, intents, i) ==
    IF i > Len(intents)
    THEN [map |-> map, keys |-> keys, raised |-> FALSE,
          intent |-> NoIntent, existing |-> NoAgent]
    ELSE IF intent_claimed(map, intents[i])
    THEN [map |-> map, keys |-> keys, raised |-> TRUE,
          intent |-> intents[i], existing |-> map[intents[i]]]
    ELSE register_loop([map EXCEPT ![intents[i]] = agent],
                       IF map[intents[i]] = NoAgent
                       THEN Append(keys, intents[i]) ELSE keys,
                       agent, intents, i + 1)

\* request.intent values: the intents agents declare and one nobody declares
RequestIntents == Intents \cup {"i0"}

\* no route call is the latest router call
NoRoute == [intent |-> NoIntent]

\* what agent.handle(request) does: return a Response with agent_name and
\* execution_time_ms left None, return one with both filled in by the
\* handler, or raise
HandlerBehaviours == {"returns_unstamped", "returns_stamped", "raises"}

\* line 73: self._intent_map.get(request.intent)
intent_map_get(map, intent) ==
    IF intent \in DOMAIN map THEN map[intent] ELSE NoAgent

\* lines 98-100 listing every intent an agent could declare
get_available_intents_all == <<"i1", "i2">>

\* lines 98-100 (and line 83): list(self._intent_map.keys())
get_available_intents == intent_keys

\* lines 93-94 that keep what the handler filled in
stamp_if_unset(response, agent_name, execution_time) ==
    IF response.agent_name = "null"
    THEN [response EXCEPT !.agent_name = agent_name,
                          !.execution_time_ms = execution_time]
    ELSE response

\* lines 93-94: the router overwrites both metadata fields
stamp(response, agent_name, execution_time) ==
    [response EXCEPT !.agent_name = agent_name,
                     !.execution_time_ms = execution_time]

\* route returned no Response: the handler's exception passed through it
NoResponse ==
    [success |-> FALSE, code |-> "no_response", available_intents |-> <<>>,
     agent_name |-> "null", execution_time_ms |-> "null"]

\* the Response a handler with the given behaviour returns
handler_response(behaviour) ==
    [success |-> TRUE, code |-> "none", available_intents |-> <<>>,
     agent_name |-> IF behaviour = "returns_stamped"
                    THEN "handler_value" ELSE "null",
     execution_time_ms |-> IF behaviour = "returns_stamped"
                           THEN "handler_value" ELSE "null"]

RouterInit ==
    /\ supported_intents \in [Agents -> IntentLists]
    /\ intent_map = [i \in Intents |-> NoAgent]
    /\ intent_keys = <<>>
    /\ register_log = <<>>
    /\ route_result = NoRoute

\* no AgentRouter is constructed
RouterIdle ==
    /\ supported_intents = NotInUse
    /\ intent_map = NotInUse
    /\ intent_keys = NotInUse
    /\ register_log = NotInUse
    /\ route_result = NotInUse

\* AgentRouter.register_agent(agent); the log keeps the ValueError's fields
register_agent(agent) ==
    /\ Len(register_log) < MaxRegistrations
    /\ LET r == register_loop(intent_map, intent_keys, agent,
                              supported_intents[agent], 1)
       IN /\ intent_map' = r.map
          /\ intent_keys' = r.keys
          /\ register_log' = Append(register_log,
                [agent |-> agent, raised |-> r.raised, intent |-> r.intent,
                 existing |-> r.existing, before |-> intent_map,
                 after |-> r.map])
    /\ route_result' = NoRoute
    /\ UNCHANGED <<supported_intents, wfvars, authvars, handlervars, activevars, entryvars>>

\* AgentRouter.route(request) with request.intent = intent, the selected
\* agent's handle behaving as given
route(intent, behaviour) ==
    /\ LET agent == intent_map_get(intent_map, intent) IN
       IF agent = NoAgent
       THEN route_result' =
               [intent |-> intent, invoked |-> <<>>, raised |-> FALSE,
                behaviour |-> "none",
                response |->
                   [success |-> FALSE, code |-> "UNKNOWN_INTENT",
                    available_intents |-> get_available_intents,
                    agent_name |-> "null", execution_time_ms |-> "null"]]
       ELSE IF behaviour = "raises"
       THEN route_result' =
               [intent |-> intent, invoked |-> <<agent>>, raised |-> TRUE,
                behaviour |-> behaviour, response |-> NoResponse]
       ELSE route_result' =
               [intent |-> intent, invoked |-> <<agent>>, raised |-> FALSE,
                behaviour |-> behaviour,
                response |-> stamp(handler_response(behaviour), agent,
                                   "measured")]
    /\ UNCHANGED <<supported_intents, intent_map, intent_keys, register_log,
                   wfvars, authvars, handlervars, activevars, entryvars>>

(***************************************************************************)
(* Default agents                                                          *)
(***************************************************************************)
IdentityIntents ==
    {"identity.user.lookup", "identity.password.reset",
     "identity.account.unlock", "identity.user.devices",
     "identity.license.assign", "identity.license.remove"}
DeviceIntents ==
    {"device.get", "device.list", "device.sync", "device.restart",
     "device.wipe"}
TicketIntents ==
    {"ticket.search", "ticket.create", "ticket.update", "ticket.resolve",
     "ticket.kb_search"}
\* an intent none of the three agents lists
UnsupportedIntent == "unsupported.intent"

\* Python binds a call's positional arguments: TypeError unless their number
\* lies between the required and the required plus optional parameters
BindsArguments(required, optional, given) ==
    given >= required /\ given <= required + optional

\* authorize(operation, request.context) as the agents call it: two
\* arguments for (operation, user, risk_level, approved=False). "OK" when it
\* returns, else the name or code of what it raises
handler_authorize(operation) ==
    IF ~BindsArguments(3, 1, 2) THEN "TypeError"
    ELSE IF operation \notin DOMAIN POLICIES THEN "POLICY_NOT_FOUND"
    ELSE "AttributeError"

\* AgentError("...") as the device and ticket agents build it: AgentError is
\* a pydantic BaseModel whose __init__ takes keyword arguments only
AgentError_positional == IF BindsArguments(0, 0, 1) THEN "AgentError" ELSE "TypeError"

\* AuditLogger.log(...): AuditLogger has log_operation and log_error only
AuditLogger_log == "AttributeError"

\* what a private _handle_* method did: the exception it raised ("none": it
\* returned), whether it reached authorize and how that ended, and the
\* outcomes of the audit records it produced
Handled(exception, authorize_called, authorize_outcome, audit) ==
    [exception |-> exception, authorize_called |-> authorize_called,
     authorize_outcome |-> authorize_outcome, audit |-> audit]

\* IdentityAgent._handle_user_lookup ... _handle_license_remove
IdentityAgent_handle_intent(intent, valid) ==
    IF ~valid THEN Handled("ValueError", FALSE, "none", <<>>)
    ELSE IF intent = "identity.user.lookup"
    THEN Handled("none", FALSE, "none", <<"success">>)
    ELSE IF intent = "identity.user.devices"
    THEN Handled("none", FALSE, "none", <<>>)
    ELSE LET outcome == handler_authorize(intent) IN
         IF outcome # "OK" THEN Handled(outcome, TRUE, outcome, <<>>)
         ELSE Handled("none", TRUE, "OK", <<"success">>)

\* the AgentResponse, or the exception, a handle call ends with
HandleResult(escaped, success, code, h) ==
    [outcome |-> IF escaped = "none" THEN "response" ELSE "raised",
     escaped |-> escaped, success |-> success, code |-> code,
     authorize_called |-> h.authorize_called,
     authorize_outcome |-> h.authorize_outcome, audit |-> h.audit]

\* IdentityAgent.handle(request)
IdentityAgent_handle(intent, valid) ==
    IF intent \notin IdentityIntents
    THEN HandleResult("none", FALSE,
                      "UNSUPPORTED_INTENT", Handled("none", FALSE, "none", <<>>))
    ELSE LET h == IdentityAgent_handle_intent(intent, valid) IN
         IF h.exception = "none"
         THEN HandleResult("none", TRUE,
                           "none", h)
         ELSE HandleResult("none", FALSE,
                           "AGENT_ERROR", h)

\* DeviceAgent._handle_get_device ... _handle_wipe_device; fault: the Intune
\* call raises
DeviceAgent_handle_intent(intent, valid, fault) ==
    IF intent # "device.list" /\ ~valid
    THEN Handled(AgentError_positional, FALSE, "none", <<>>)
    ELSE LET authorizes == intent \in {"device.restart", "device.wipe"}
             outcome == IF authorizes THEN handler_authorize(intent) ELSE "none"
         IN IF authorizes /\ outcome # "OK"
            THEN Handled(outcome, TRUE, outcome, <<>>)
            ELSE IF fault
            THEN Handled("IntegrationError", authorizes, outcome, <<>>)
            ELSE Handled(AuditLogger_log, authorizes, outcome, <<>>)

\* TicketAgent._handle_search_incidents ... _handle_kb_search; fault: the
\* ServiceNow call raises
TicketAgent_handle_intent(intent, valid, fault) ==
    IF intent # "ticket.search" /\ ~valid
    THEN Handled(AgentError_positional, FALSE, "none", <<>>)
    ELSE LET authorizes ==
                 intent \in {"ticket.create", "ticket.update", "ticket.resolve"}
             outcome == IF authorizes THEN handler_authorize(intent) ELSE "none"
         IN IF authorizes /\ outcome # "OK"
            THEN Handled(outcome, TRUE, outcome, <<>>)
            ELSE IF fault
            THEN Handled("IntegrationError", authorizes, outcome, <<>>)
            ELSE Handled(AuditLogger_log, authorizes, outcome, <<>>)

\* handle(self, request, context) of the device and the ticket agent, given
\* what its _handle_* method does; via_router: called as agent.handle(request)
\* (router.py line 89), else as agent.handle(request, request.context)
two_parameter_handle(intents, intent, via_router, h) ==
    IF ~BindsArguments(2, 0, IF via_router THEN 1 ELSE 2)
    THEN HandleResult("TypeError", FALSE, "none",
                      Handled("TypeError", FALSE, "none", <<>>))
    ELSE LET in_try == IF intent \notin intents
                       THEN Handled(AgentError_positional, FALSE, "none", <<>>)
                       ELSE IF h.exception = "none"
                       \* AgentResponse(agent_name=..., intent=..., ...)
                       \* lacks the required field success
                       THEN [h EXCEPT !.exception = "ValidationError"]
                       ELSE h
         \* except Exception as e: raise AgentError(f"...")
         IN HandleResult(AgentError_positional, FALSE,
                         "none", in_try)

\* DeviceAgent.handle
DeviceAgent_handle(intent, valid, fault, via_router) ==
    two_parameter_handle(DeviceIntents, intent, via_router,
                         DeviceAgent_handle_intent(intent, valid, fault))

\* TicketAgent.handle
TicketAgent_handle(intent, valid, fault, via_router) ==
    two_parameter_handle(TicketIntents, intent, via_router,
                         TicketAgent_handle_intent(intent, valid, fault))

NoHandleCall ==
    [agent |-> NoAgent, intent |-> NoIntent, valid |-> FALSE,
     fault |-> FALSE, via_router |-> FALSE,
     result |-> HandleResult("none", FALSE, "none",
                             Handled("none", FALSE, "none", <<>>))]

HandlerInit ==
    /\ handle_result = NoHandleCall
    /\ audit_records = <<>>

\* no agent is constructed
HandlerIdle ==
    /\ handle_result = NotInUse
    /\ audit_records = NotInUse

\* identity_agent.handle(request), from the router or directly; the agent
\* calls no integration. The audit records go to the sink.
CallIdentityAgent(intent, valid, via_router) ==
    LET r == IdentityAgent_handle(intent, valid) IN
    /\ Len(audit_records) + Len(r.audit) <= MaxAuditRecords
    /\ handle_result' =
          [agent |-> "identity_agent", intent |-> intent, valid |-> valid,
           fault |-> FALSE, via_router |-> via_router, result |-> r]
    /\ audit_records' = audit_records \o r.audit
    /\ UNCHANGED <<wfvars, authvars, routervars, activevars, entryvars>>

\* device_agent.handle
CallDeviceAgent(intent, valid, fault, via_router) ==
    LET r == DeviceAgent_handle(intent, valid, fault, via_router) IN
    /\ Len(audit_records) + Len(r.audit) <= MaxAuditRecords
    /\ handle_result' =
          [agent |-> "device_agent", intent |-> intent, valid |-> valid,
           fault |-> fault, via_router |-> via_router, result |-> r]
    /\ audit_records' = audit_records \o r.audit
    /\ UNCHANGED <<wfvars, authvars, routervars, activevars, entryvars>>

\* ticket_agent.handle
CallTicketAgent(intent, valid, fault, via_router) ==
    LET r == TicketAgent_handle(intent, valid, fault, via_router) IN
    /\ Len(audit_records) + Len(r.audit) <= MaxAuditRecords
    /\ handle_result' =
          [agent |-> "ticket_agent", intent |-> intent, valid |-> valid,
           fault |-> fault, via_router |-> via_router, result |-> r]
    /\ audit_records' = audit_records \o r.audit
    /\ UNCHANGED <<wfvars, authvars, routervars, activevars, entryvars>>

(***************************************************************************)
(* Entry point                                                             *)
(***************************************************************************)
\* the agents in the order register_default_agents registers them
DefaultAgents == <<"identity_agent", "device_agent", "ticket_agent">>
DefaultIntents == IdentityIntents \cup DeviceIntents \cup TicketIntents

\* supported_intents of the three default agents
default_supported_intents ==
    [identity_agent |->
        <<"identity.user.lookup", "identity.password.reset",
          "identity.account.unlock", "identity.user.devices",
          "identity.license.assign", "identity.license.remove">>,
     device_agent |->
        <<"device.get", "device.list", "device.sync", "device.restart",
          "device.wipe">>,
     ticket_agent |->
        <<"ticket.search", "ticket.create", "ticket.update",
          "ticket.resolve", "ticket.kb_search">>]

\* where register_default_agents raises: 0 nowhere; k in the imports and
\* constructors that precede the k-th register_agent call
RaiseAt == 0..Len(DefaultAgents)

\* lines 162-170 from the k-th agent on, over the map built so far
RECURSIVE register_agents_from(_, _, _, _)
register_agents_from(map, keys, raise_at, k) ==
    IF k > Len(DefaultAgents)
    THEN [map |-> map, keys |-> keys, raised |-> FALSE]
    ELSE IF raise_at = k
    THEN [map |-> map, keys |-> keys, raised |-> TRUE]
    ELSE LET r == register_loop(map, keys, DefaultAgents[k],
                                default_supported_intents[DefaultAgents[k]],
                                1)
         IN IF r.raised
            THEN [map |-> r.map, keys |-> r.keys, raised |-> TRUE]
            ELSE register_agents_from(r.map, r.keys, raise_at, k + 1)

\* register_default_agents(router, settings)
register_default_agents(map, keys, raise_at) ==
    register_agents_from(map, keys, raise_at, 1)

\* the agents that hold an intent of the map
registered_agents(map) == {map[i] : i \in DOMAIN map} \ {NoAgent}

\* what one call of _ensure_initialized does: the globals and the router's
\* map after it, and whether it returned. settings_ok: Settings() finds the
\* environment it requires
initialization(settings_ok, raise_at) ==
    IF _settings = "None" /\ ~settings_ok
    THEN [outcome |-> "raised", settings |-> "None", router |-> _router,
          map |-> intent_map, keys |-> intent_keys]
    ELSE IF _router # "None"
    THEN [outcome |-> "returned", settings |-> "Settings",
          router |-> _router, map |-> intent_map, keys |-> intent_keys]
    \* line 27 binds the global before line 28 registers the agents
    ELSE LET r == register_default_agents(
                      [i \in DefaultIntents |-> NoAgent], <<>>, raise_at)
         IN [outcome |-> IF r.raised THEN "raised" ELSE "returned",
             settings |-> "Settings", router |-> "AgentRouter",
             map |-> r.map, keys |-> r.keys]

NoEntryCall ==
    [call |-> "none", outcome |-> "none", registered |-> {},
     intent |-> NoIntent, routed_to |-> NoAgent, response |-> "none"]

\* the module is imported: both globals are None
EntryInit ==
    /\ _settings = "None"
    /\ _router = "None"
    /\ entry_result = NoEntryCall
    /\ supported_intents = default_supported_intents
    /\ intent_map = [i \in DefaultIntents |-> NoAgent]
    /\ intent_keys = <<>>
    /\ register_log = NotInUse
    /\ route_result = NotInUse

\* entrypoint.py is not imported
EntryIdle ==
    /\ _settings = NotInUse
    /\ _router = NotInUse
    /\ entry_result = NotInUse

\* _ensure_initialized()
_ensure_initialized(settings_ok, raise_at) ==
    LET e == initialization(settings_ok, raise_at) IN
    /\ _settings' = e.settings
    /\ _router' = e.router
    /\ intent_map' = e.map
    /\ intent_keys' = e.keys
    /\ entry_result' =
          [call |-> "_ensure_initialized", outcome |-> e.outcome,
           registered |-> IF e.outcome = "returned"
                          THEN registered_agents(e.map) ELSE {},
           intent |-> NoIntent, routed_to |-> NoAgent, response |-> "none"]
    /\ UNCHANGED <<supported_intents, register_log, route_result, wfvars,
                   authvars, handlervars, activevars>>

\* the agent's handle as route calls it, line 89: agent.handle(request)
default_agent_handle(agent, intent, valid, fault) ==
    IF agent = "identity_agent" THEN IdentityAgent_handle(intent, valid)
    ELSE IF agent = "device_agent"
    THEN DeviceAgent_handle(intent, valid, fault, TRUE)
    ELSE TicketAgent_handle(intent, valid, fault, TRUE)

\* handle_request_async(payload): _ensure_initialized, then router.route on
\* the request built from the payload, the selected agent's handle included
handle_request_async(intent, valid, fault, settings_ok, raise_at) ==
    LET e == initialization(settings_ok, raise_at)
        agent == IF e.outcome = "returned"
                 THEN intent_map_get(e.map, intent) ELSE NoAgent
        h == IF agent = NoAgent
             THEN HandleResult("none", FALSE, "UNKNOWN_INTENT",
                               Handled("none", FALSE, "none", <<>>))
             ELSE default_agent_handle(agent, intent, valid, fault)
    IN
    /\ Len(audit_records) + Len(h.audit) <= MaxAuditRecords
    /\ _settings' = e.settings
    /\ _router' = e.router
    /\ intent_map' = e.map
    /\ intent_keys' = e.keys
    /\ entry_result' =
          [call |-> "handle_request_async", outcome |-> e.outcome,
           registered |-> IF e.outcome = "returned"
                          THEN registered_agents(e.map) ELSE {},
           intent |-> intent, routed_to |-> agent,
           response |-> IF e.outcome = "raised" THEN "none"
                        ELSE IF h.outcome = "raised" THEN h.escaped
                        ELSE IF h.success THEN "success"
                        ELSE h.code]
    /\ handle_result' =
          IF agent = NoAgent THEN handle_result
          ELSE [agent |-> agent, intent |-> intent, valid |-> valid,
                fault |-> fault, via_router |-> TRUE, result |-> h]
    /\ audit_records' = audit_records \o h.audit
    /\ UNCHANGED <<supported_intents, register_log, route_result, wfvars,
                   authvars, activevars>>

(***************************************************************************)
(* Specifications                                                          *)
(***************************************************************************)
Init ==
    WorkflowInit /\ AuthIdle /\ RouterIdle /\ HandlerIdle /\ ActiveIdle
        /\ EntryIdle
Next ==
    \/ StartWave
    \/ WorkflowDeadlock
    \/ WorkflowReturn
    \/ \E t \in Tasks : TaskStart(t)
    \/ \E t \in Tasks : \E confirmed \in BOOLEAN : ConfirmReturn(t, confirmed)
    \/ \E t \in Tasks : ConfirmRaise(t)
    \/ \E t \in Tasks : QueryReturn(t)
    \/ \E t \in Tasks : QueryRaise(t)
Spec == Init /\ [][Next]_vars

\* the run under the condition that every awaited handler call and
\* confirmation callback returns or raises and the event loop resumes the
\* coroutine that waits for it
FairSpec == Init /\ [][Next]_vars /\ WF_vars(Next)

AuthSpecInit ==
    AuthInit /\ WorkflowIdle /\ RouterIdle /\ HandlerIdle /\ ActiveIdle
        /\ EntryIdle
AuthSpecNext ==
    \/ AuthorizeCall
    \/ \E operation \in OtherOperations : \E user_roles \in OtherRoles :
          \E risk_level \in OtherRiskLevels : \E approved \in BOOLEAN :
             authorize_other(operation, user_roles, risk_level, approved)
    \/ \E operation \in OtherOperations : get_policy(operation)
    \/ list_policies
AuthSpec == AuthSpecInit /\ [][AuthSpecNext]_vars

RouterSpecInit ==
    RouterInit /\ WorkflowIdle /\ AuthIdle /\ HandlerIdle /\ ActiveIdle
        /\ EntryIdle
RouterSpecNext ==
    \/ \E agent \in Agents : register_agent(agent)
    \/ \E intent \in RequestIntents :
          \E behaviour \in HandlerBehaviours : route(intent, behaviour)
RouterSpec == RouterSpecInit /\ [][RouterSpecNext]_vars

HandlerSpecInit ==
    HandlerInit /\ WorkflowIdle /\ RegistryLoaded /\ RouterIdle /\ ActiveIdle
        /\ EntryIdle
HandlerSpecNext ==
    \/ \E intent \in IdentityIntents \cup {UnsupportedIntent} :
          \E valid, via_router \in BOOLEAN :
             CallIdentityAgent(intent, valid, via_router)
    \/ \E intent \in DeviceIntents \cup {UnsupportedIntent} :
          \E valid, fault, via_router \in BOOLEAN :
             CallDeviceAgent(intent, valid, fault, via_router)
    \/ \E intent \in TicketIntents \cup {UnsupportedIntent} :
          \E valid, fault, via_router \in BOOLEAN :
             CallTicketAgent(intent, valid, fault, via_router)
HandlerSpec == HandlerSpecInit /\ [][HandlerSpecNext]_vars

ActiveSpecInit ==
    ActiveInit /\ WorkflowIdle /\ AuthIdle /\ RouterIdle /\ HandlerIdle
        /\ EntryIdle
ActiveSpecNext ==
    \/ \E r \in Runs : \E workflow_id \in WorkflowIds :
          execute_workflow_enter(r, workflow_id)
    \/ \E r \in Runs : \E path \in ExitPaths : execute_workflow_exit(r, path)
    \/ \E workflow_id \in WorkflowIds : generate_workflow_report(workflow_id)
ActiveSpec == ActiveSpecInit /\ [][ActiveSpecNext]_vars

EntrySpecInit ==
    EntryInit /\ HandlerInit /\ RegistryLoaded /\ WorkflowIdle /\ ActiveIdle
EntrySpecNext ==
    \/ \E settings_ok \in BOOLEAN : \E raise_at \in RaiseAt :
          _ensure_initialized(settings_ok, raise_at)
    \/ \E intent \in DefaultIntents \cup {UnsupportedIntent} :
          \E valid, fault, settings_ok \in BOOLEAN : \E raise_at \in RaiseAt :
             handle_request_async(intent, valid, fault, settings_ok, raise_at)
EntrySpec == EntrySpecInit /\ [][EntrySpecNext]_vars

(***************************************************************************)
(* Claims about the authorization gate (AuthSpec)                          *)
(***************************************************************************)
Called == auth_outcome # "not_called"
HasPolicy == auth_operation \in DOMAIN policy_registry
HoldsRequiredRole ==
    auth_roles \cap policy_registry[auth_operation].required_roles # {}
\* the total order low < medium < high < critical
RiskOrder == <<"low", "medium", "high", "critical">>
RiskAtOrAbove(r, min) ==
    \E i, j \in 1..Len(RiskOrder) :
        RiskOrder[i] = min /\ RiskOrder[j] = r /\ i <= j
RiskAdequate ==
    RiskAtOrAbove(auth_risk_level,
                  policy_registry[auth_operation].min_risk_level)
ApprovalSatisfied ==
    auth_approved \/ ~policy_registry[auth_operation].requires_approval

\* C1: authorize returns without raising exactly when a policy for the
\* operation exists, the principal holds one of its required roles, the risk
\* level is at or above the policy minimum and approval is given or not
\* required; otherwise it raises an AuthorizationError.
C1_AuthorizeIffAllChecksPass ==
    Called =>
        /\ (auth_outcome = "OK") <=>
              (HasPolicy /\ HoldsRequiredRole /\ RiskAdequate
                  /\ ApprovalSatisfied)
        /\ auth_outcome \in {"OK", "POLICY_NOT_FOUND", "INSUFFICIENT_ROLES",
                             "INSUFFICIENT_RISK_LEVEL", "APPROVAL_REQUIRED"}

\* an approval-gated, critical operation authorized for an approved admin
C1_Witness ==
    /\ auth_outcome = "OK"
    /\ auth_operation = "intune.device.wipe"
    /\ auth_risk_level = "critical"
    /\ auth_approved

\* C9: the checks run in the order policy lookup, role, risk level,
\* approval, and the error carries the code of the first check that fails.
C9_FirstFailingCheckIsReported ==
    Called =>
        /\ (auth_outcome = "POLICY_NOT_FOUND") <=> ~HasPolicy
        /\ (auth_outcome = "INSUFFICIENT_ROLES") <=>
              (HasPolicy /\ ~HoldsRequiredRole)
        /\ (auth_outcome = "INSUFFICIENT_RISK_LEVEL") <=>
              (HasPolicy /\ HoldsRequiredRole /\ ~RiskAdequate)
        /\ (auth_outcome = "APPROVAL_REQUIRED") <=>
              (HasPolicy /\ HoldsRequiredRole /\ RiskAdequate
                  /\ ~ApprovalSatisfied)
        /\ (auth_operation = "ad.password.reset" /\ auth_roles = {"viewer"}
               /\ auth_risk_level = "medium" /\ auth_approved)
              => auth_outcome = "INSUFFICIENT_ROLES"

\* role, risk and approval checks all fail, and the role failure is reported
C9_Witness ==
    /\ Called
    /\ HasPolicy
    /\ ~HoldsRequiredRole
    /\ ~RiskAdequate
    /\ ~ApprovalSatisfied
    /\ auth_outcome = "INSUFFICIENT_ROLES"

\* C19: authorize is idempotent and free of side effects: however the calls
\* with the same arguments are interleaved with other authorize, get_policy
\* and list_policies calls, each yields the outcome of the first (pass, or
\* the same error code), and no call changes the policy registry.
C19_AuthorizeIdempotentRegistryUnchanged ==
    /\ POLICIES = policy_registry
    /\ auth_calls >= 1 =>
          /\ auth_outcome = auth_first_outcome
          /\ auth_outcome = authorize(auth_operation, auth_roles,
                                      auth_risk_level, auth_approved)
    /\ registry_result.kind = "list_policies" =>
          registry_result.names = DOMAIN policy_registry

\* authorize passed twice on an operation get_policy was asked about
C19_Witness ==
    /\ auth_calls = 2
    /\ auth_outcome = "OK"
    /\ auth_first_outcome = "OK"
    /\ registry_result.kind = "get_policy"
    /\ registry_result.operation = auth_operation

(***************************************************************************)
(* Claims about the workflow coordinator (Spec)                            *)
(***************************************************************************)
Returned == wpc = "returned"

\* C2: a confirmation-required task whose callback returned false is
\* skipped, in every state from the answer on, and orchestrator.query is
\* never invoked for it.
C2_DeclinedTaskSkippedNeverQueried ==
    \A t \in Tasks :
        (requires_confirmation[t] /\ callback_answer[t] = "no") =>
            /\ status[t] = SKIPPED
            /\ query_calls[t] = 0

\* a run that returned with a declined task
C2_Witness ==
    /\ Returned
    /\ \E t \in Tasks :
          /\ requires_confirmation[t]
          /\ callback_answer[t] = "no"
          /\ status[t] = SKIPPED

\* C3: with or without a callback supplied, a confirmation-required task
\* reaches orchestrator.query only after the callback was invoked for it and
\* returned true.
C3_QueryOnlyAfterConfirmation ==
    \A t \in Tasks :
        (requires_confirmation[t] /\ query_calls[t] > 0) =>
            /\ callback_calls[t] > 0
            /\ callback_answer[t] = "yes"

\* a task that was started: in progress, or ended completed, failed, or
\* skipped by a declined confirmation
WasStarted(t) ==
    \/ status[t] \in {IN_PROGRESS, COMPLETED, FAILED}
    \/ status[t] = SKIPPED /\ callback_answer[t] = "no"

\* C4: a started task has every dependency that names a task of the workflow
\* completed; so the handler is called for a task only when all of those
\* dependencies are completed (A before B before C in a chain).
C4_StartedTaskHasCompletedDependencies ==
    \A t \in Tasks :
        (WasStarted(t) \/ query_calls[t] > 0 \/ callback_calls[t] > 0) =>
            \A d \in dependencies[t] \cap Tasks : status[d] = COMPLETED

\* the handler call of the last task of a chain a -> b -> c is under way
C4_Witness ==
    \E a, b, c \in Tasks :
        /\ a # b /\ b # c /\ a # c
        /\ a \in dependencies[b]
        /\ b \in dependencies[c]
        /\ tpc[c] = "query"
        /\ status[c] = IN_PROGRESS

\* C5: when a task a failed, every task b listing a as a dependency is
\* skipped, was never started, and neither the handler nor the callback was
\* invoked for it.
C5_DependentOfFailedTaskSkipped ==
    \A a, b \in Tasks :
        (a \in dependencies[b] /\ status[a] = FAILED) =>
            /\ status[b] = SKIPPED
            /\ tpc[b] = "idle"
            /\ query_calls[b] = 0
            /\ callback_calls[b] = 0
            /\ results_tasks[b] = "none"

\* a run that returned with a failed task and a dependent of it
C5_Witness ==
    /\ Returned
    /\ \E a, b \in Tasks :
          a \in dependencies[b] /\ status[a] = FAILED /\ status[b] = SKIPPED

\* C6: the cascade is transitive: when execute_workflow returns, a task c
\* depending on b, which depends on a failed task a, is skipped even though c
\* does not list a itself.
C6_CascadeIsTransitive ==
    Returned =>
        \A a, b, c \in Tasks :
            (/\ a \in dependencies[b]
             /\ b \in dependencies[c]
             /\ a \notin dependencies[c]
             /\ status[a] = FAILED) => status[c] = SKIPPED

\* the workflow of WorkflowTemplates.password_reset_and_verify
IsPasswordReset ==
    /\ \A t \in {1, 2, 3} : dependencies[t] = password_reset_deps[t]
    /\ \A t \in {1, 2, 3} :
          requires_confirmation[t] = password_reset_confirmation[t]

\* C7: Scenario 2: the password-reset workflow with the callback declining
\* reset_password and no handler failure ends with check_user completed,
\* reset_password and verify_signin skipped and the aggregate
\* partially_completed; and every task depending on a declined task ends
\* skipped.
C7_DeclineCascades ==
    Returned =>
        /\ (/\ IsPasswordReset
            /\ callback_answer[2] = "no"
            /\ \A t \in Tasks : status[t] # FAILED) =>
               /\ status[1] = COMPLETED
               /\ status[2] = SKIPPED
               /\ status[3] = SKIPPED
               /\ results_status = WorkflowStatus_PARTIALLY_COMPLETED
        /\ \A a, b \in Tasks :
              (a \in dependencies[b] /\ callback_answer[a] = "no") =>
                  status[b] = SKIPPED

\* C8: a run that ended on the deadlock branch reports status failed with
\* the deadlock error, however many tasks completed before.
C8_DeadlockReportsFailed ==
    (Returned /\ results_error = DeadlockError) =>
        results_status = WorkflowStatus_FAILED

\* the tasks t depends on, directly or through other tasks
RECURSIVE DependencyClosure(_, _)
DependencyClosure(S, n) ==
    IF n = 0 THEN S
    ELSE DependencyClosure(
             S \cup UNION {dependencies[d] \cap Tasks : d \in S}, n - 1)
TransitiveDependencies(t) ==
    DependencyClosure(dependencies[t] \cap Tasks, NumTasks)
OnCycle(t) == t \in TransitiveDependencies(t)
\* the tasks that neither lie on a dependency cycle nor depend on one: the
\* least set holding every task whose dependencies it holds
RECURSIVE CycleFree(_, _)
CycleFree(W, n) ==
    LET grown == {t \in Tasks : dependencies[t] \cap Tasks \subseteq W}
    IN IF n = 0 \/ grown = W THEN W ELSE CycleFree(grown, n - 1)
CycleFreeTasks == CycleFree({}, NumTasks)
CycleDependent(t) == t \notin CycleFreeTasks
Acyclic == CycleFreeTasks = Tasks

\* no handler call failed and no confirmation was declined or raised
AllSucceededAndConfirmed ==
    \A t \in Tasks :
        status[t] # FAILED /\ callback_answer[t] \notin {"no", "raised"}

\* C13: with an acyclic dependency graph, every handler call succeeding and
\* every confirmation granted, execute_workflow ends with every task
\* completed and the aggregate completed; in the password-reset workflow
\* check_user completes before reset_password starts, and reset_password
\* before verify_signin starts, so the three complete in that order.
C13_AllSucceedAllCompleteInOrder ==
    /\ (Returned /\ AllSucceededAndConfirmed /\ Acyclic) =>
          /\ \A t \in Tasks : status[t] = COMPLETED
          /\ results_status = WorkflowStatus_COMPLETED
          /\ results_error = "none"
    /\ IsPasswordReset =>
          /\ status[2] \in {IN_PROGRESS, COMPLETED} => status[1] = COMPLETED
          /\ status[3] \in {IN_PROGRESS, COMPLETED} => status[2] = COMPLETED

\* Scenario 1 returned: the callback said yes and all three completed
C13_Witness ==
    /\ Returned
    /\ IsPasswordReset
    /\ confirmation_callback
    /\ callback_answer[2] = "yes"
    /\ \A t \in Tasks : status[t] = COMPLETED
    /\ results_status = WorkflowStatus_COMPLETED

\* C14: the status of the returned report depends on the final task
\* statuses only: completed when every task is completed,
\* partially_completed when some but not all are, failed when none is.
C14_FinalStatusDerivedFromTasks ==
    Returned =>
        LET done == {t \in Tasks : status[t] = COMPLETED} IN
        /\ (done = Tasks) => results_status = "completed"
        /\ (done # {} /\ done # Tasks) =>
              results_status = "partially_completed"
        /\ (done = {}) => results_status = "failed"

\* a run that ended on the deadlock branch after a task completed
C14_Witness ==
    /\ Returned
    /\ results_error = DeadlockError
    /\ results_status = "partially_completed"
    /\ \E t \in Tasks : status[t] = COMPLETED

\* the transitions the per-task state machine allows
AllowedTransitions ==
    {<<PENDING, IN_PROGRESS>>, <<IN_PROGRESS, COMPLETED>>,
     <<IN_PROGRESS, FAILED>>, <<PENDING, SKIPPED>>}

\* C15: a task's status changes only along pending -> in_progress,
\* in_progress -> completed, in_progress -> failed and pending -> skipped;
\* completed, failed and skipped are never left, and a task becomes skipped,
\* by decline or by cascade, only from pending.
C15_StatusTransitions ==
    [][\A t \in Tasks :
          status'[t] # status[t] =>
              <<status[t], status'[t]>> \in AllowedTransitions]_vars

NoDependencies == \A t \in Tasks : dependencies[t] \cap Tasks = {}

\* C18: in a workflow of three tasks without dependencies all three are
\* handed to one asyncio.gather, each is in-progress from its start until its
\* own await returns, and so a state with all three in-progress is reached.
C18_IndependentTasksShareOneWave ==
    NoDependencies =>
        /\ wpc = "gather" => wave = workflow_tasks
        /\ \A t \in Tasks :
              tpc[t] \in {"confirm", "query"} => status[t] = IN_PROGRESS

\* three independent tasks, all in-progress, none finished
C18_Witness ==
    /\ NumTasks >= 3
    /\ NoDependencies
    /\ \A t \in Tasks : status[t] = IN_PROGRESS
    /\ \A t \in Tasks : results_tasks[t] = "none"

HasCycle == CycleFreeTasks # Tasks
NeverRun(t) ==
    /\ status[t] \notin {IN_PROGRESS, COMPLETED, FAILED}
    /\ tpc[t] = "idle"
    /\ query_calls[t] = 0
    /\ callback_calls[t] = 0

\* C20: in a workflow with a dependency cycle (a self-dependency included)
\* no task on the cycle or depending on it becomes in-progress or reaches
\* the handler; the run still runs every task that does not depend on the
\* cycle and then ends with the deadlock error.
C20_CycleDeadlocksOthersAllRun ==
    /\ \A t \in Tasks : CycleDependent(t) => NeverRun(t)
    /\ (Returned /\ HasCycle) =>
          /\ \A t \in Tasks : ~CycleDependent(t) => WasStarted(t)
          /\ results_error = DeadlockError

\* t depends, directly or through other tasks, on a task that failed or
\* whose confirmation was declined
BlockedByFailureOrDecline(t) ==
    \E d \in TransitiveDependencies(t) :
        status[d] = FAILED \/ callback_answer[d] = "no"

\* C20 amended: no task on a cycle or depending on one becomes in-progress
\* or reaches the handler or the callback; every pass of the loop hands out
\* at least one pending task and each has left pending once its coroutine
\* ran, so the loop ends; when the run returns, every task that does not depend on a cycle
\* was started unless it depends, directly or transitively, on a task that
\* failed or was declined, and the report carries the deadlock error exactly
\* when a task is left pending; with no failure and no decline that is every
\* run of a workflow with a cycle, and all other tasks are completed.
C20_CycleNeverRunsDeadlockIffPendingLeft ==
    /\ (\E t \in Tasks : ~NeverRun(t)) =>
          LET free == CycleFreeTasks
          IN \A t \in Tasks : ~NeverRun(t) => t \in free
    /\ wpc = "gather" =>
          /\ wave # <<>>
          /\ \A i \in 1..Len(wave) :
                status[wave[i]] = PENDING => tpc[wave[i]] = "scheduled"
    /\ Returned =>
          /\ \A t \in Tasks :
                ~CycleDependent(t) =>
                    WasStarted(t) \/ BlockedByFailureOrDecline(t)
          /\ (results_error = DeadlockError) <=>
                (\E t \in Tasks : status[t] = PENDING)
          /\ (HasCycle /\ AllSucceededAndConfirmed) =>
                /\ results_error = DeadlockError
                /\ \A t \in Tasks : ~CycleDependent(t) => status[t] = COMPLETED

\* a run with a self-dependent task returned with the deadlock error after
\* the tasks outside the cycle completed
C20_Witness ==
    /\ Returned
    /\ \E t \in Tasks : t \in dependencies[t]
    /\ \E t \in Tasks : ~CycleDependent(t) /\ status[t] = COMPLETED
    /\ \E t \in Tasks : CycleDependent(t) /\ ~OnCycle(t) /\ NeverRun(t)
    /\ results_error = DeadlockError

\* how far a coroutine of _execute_single_task has come
CoroutineRank ==
    "idle" :> 0 @@ "scheduled" :> 1 @@ "confirm" :> 2 @@ "query" :> 3
        @@ "done" :> 4

\* C21: execute_workflow terminates on every workflow, cyclic or not, when
\* every handler call and every callback returns or raises: a run that has
\* not returned can always take a step; every step is the return or moves a
\* coroutine forward and none back, so a run has finitely many steps; each
\* pass that runs a wave leaves every task of the wave non-pending; and at
\* most NumTasks + 1 passes are entered.
C21_TerminatesWithinTasksPlusOnePasses ==
    /\ [](/\ passes <= NumTasks + 1
          /\ Returned \/ ENABLED Next
          /\ (wpc = "gather" /\ AtLoopHead) =>
                /\ wave # <<>>
                /\ \A i \in 1..Len(wave) : status[wave[i]] # PENDING)
    /\ [][\/ wpc' = "returned" /\ wpc # "returned"
          \/ /\ tpc' # tpc
             /\ \A t \in Tasks :
                   CoroutineRank[tpc'[t]] >= CoroutineRank[tpc[t]]]_vars

\* a workflow with a cycle returned after two waves and the pass that found
\* the deadlock
C21_Witness ==
    /\ Returned
    /\ HasCycle
    /\ results_error = DeadlockError
    /\ passes = NumTasks
    /\ passes >= 3

InWave(t) == \E i \in 1..Len(wave) : wave[i] = t
Terminal(t) == status[t] \in {COMPLETED, FAILED, SKIPPED}

\* C22: waves are separated by a barrier: every task that is in-progress, or
\* whose coroutine is scheduled or suspended, belongs to the wave being
\* gathered, and the ready list is replaced only when every task of the
\* current wave is completed, failed or skipped; so a task whose own
\* dependencies are completed stays pending until the slowest task of the
\* wave has finished.
C22_WavesSeparatedByBarrier ==
    /\ [](\A t \in Tasks :
             (status[t] = IN_PROGRESS
                 \/ tpc[t] \in {"scheduled", "confirm", "query"}) =>
                 wpc = "gather" /\ InWave(t))
    /\ [][wave' # wave =>
             /\ \A i \in 1..Len(wave) : Terminal(wave[i])
             /\ \A t \in Tasks : status[t] # IN_PROGRESS]_vars

\* a task outside the wave is pending with its dependency completed while
\* another task of the wave is still in-progress
C22_Witness ==
    /\ wpc = "gather"
    /\ \E t, d, u \in Tasks :
          /\ ~InWave(t)
          /\ status[t] = PENDING
          /\ dependencies[t] = {d}
          /\ status[d] = COMPLETED
          /\ InWave(d)
          /\ InWave(u)
          /\ status[u] = IN_PROGRESS

C24_ReportHasEntryForEveryTask ==
    Returned =>
        \A t \in Tasks :
            /\ results_tasks[t] # "none"
            /\ results_tasks[t] = status[t]

\* skipped by _skip_dependent_tasks, not by a declined confirmation
SkippedByCascade(t) == status[t] = SKIPPED /\ callback_answer[t] # "no"

\* C25: in one run the handler is invoked at most once per task and the
\* confirmation callback at most once per task, the callback only for tasks
\* with requires_confirmation set, and a task skipped by the cascade gets
\* neither call.
C25_AtMostOneCallPerTask ==
    \A t \in Tasks :
        /\ query_calls[t] <= 1
        /\ callback_calls[t] <= 1
        /\ callback_calls[t] > 0 => requires_confirmation[t]
        /\ SkippedByCascade(t) => query_calls[t] = 0 /\ callback_calls[t] = 0

\* a run returned in which one task was confirmed and handled, one each, and
\* another was skipped by the cascade
C25_Witness ==
    /\ Returned
    /\ \E t, u \in Tasks :
          /\ callback_calls[t] = 1
          /\ query_calls[t] = 1
          /\ SkippedByCascade(u)
          /\ requires_confirmation[u]

\* t lists a dependency id that names no task of the workflow
HasUnknownDependency(t) == dependencies[t] \ Tasks # {}
KnownDependenciesCompleted(t) ==
    \A d \in dependencies[t] \cap Tasks : status[d] = COMPLETED

\* C28: a dependency id that names no task is ignored: at the loop head a
\* pending task whose dependencies inside the workflow are all completed is
\* in the ready list even if it lists unknown ids; when the run has returned
\* such a task was executed; and a deadlock is reported only when a pending
\* task has a dependency inside the workflow that is not completed.
C28_UnknownDependencyIdsIgnored ==
    /\ (AtLoopHead /\ ~Returned) =>
          \A t \in Tasks :
              (/\ HasUnknownDependency(t)
               /\ status[t] = PENDING
               /\ KnownDependenciesCompleted(t)) =>
                  \E i \in 1..Len(get_ready_tasks) : get_ready_tasks[i] = t
    /\ Returned =>
          /\ \A t \in Tasks :
                (HasUnknownDependency(t) /\ KnownDependenciesCompleted(t)) =>
                    WasStarted(t)
          /\ results_error = DeadlockError =>
                \E t \in Tasks :
                    status[t] = PENDING /\ ~KnownDependenciesCompleted(t)

\* a run returned without a deadlock error in which a task listing an
\* unknown id and a task of the workflow ran after that task completed
C28_Witness ==
    /\ Returned
    /\ results_error = "none"
    /\ \E t, d \in Tasks :
          /\ t # d
          /\ dependencies[t] = {0, d}
          /\ status[d] = COMPLETED
          /\ status[t] = COMPLETED

(***************************************************************************)
(* Claims about the intent router (RouterSpec)                             *)
(***************************************************************************)
Declared(agent) ==
    {supported_intents[agent][i] : i \in 1..Len(supported_intents[agent])}

\* C10: on a fresh router, for two handlers that both declare an intent X,
\* in either order, the second registration fails with a conflict naming X
\* and both handlers, and X stays mapped to the first.
C10_ConflictNamesEverySharedIntent ==
    Len(register_log) = 2 =>
        LET first == register_log[1]
            second == register_log[2]
        IN first.agent # second.agent =>
             \A x \in Declared(first.agent) \cap Declared(second.agent) :
                 /\ second.raised
                 /\ second.intent = x
                 /\ second.existing = first.agent
                 /\ intent_map[x] = first.agent

\* C10 amended: a registration of a handler with a declared intent that is
\* already mapped fails with a conflict naming the handler, the first intent
\* of its list that is already mapped or repeats an earlier entry of the
\* list, and that intent's holder (the handler itself for a repeat); every
\* intent mapped before the call keeps its handler.
C10_ConflictNamesFirstClaimedIntent ==
    \A k \in 1..Len(register_log) :
        LET e == register_log[k]
            s == supported_intents[e.agent]
            mapped == {i \in 1..Len(s) : e.before[s[i]] # NoAgent}
            repeated == {i \in 1..Len(s) : \E j \in 1..(i - 1) : s[j] = s[i]}
        IN mapped # {} =>
             /\ e.raised
             /\ \E i \in mapped \cup repeated :
                   /\ \A j \in mapped \cup repeated : i <= j
                   /\ e.intent = s[i]
                   /\ e.existing = IF i \in mapped THEN e.before[s[i]]
                                   ELSE e.agent
             /\ \A x \in Intents :
                   e.before[x] # NoAgent =>
                       e.after[x] = e.before[x] /\ intent_map[x] = e.before[x]

\* two different handlers share two intents and were registered in turn
C10_Witness ==
    /\ Len(register_log) = 2
    /\ register_log[1].agent # register_log[2].agent
    /\ ~register_log[1].raised
    /\ register_log[2].raised
    /\ register_log[2].existing = register_log[1].agent
    /\ Cardinality(Declared(register_log[1].agent)
                      \cap Declared(register_log[2].agent)) = 2

\* the latest router call was a route
Routed == route_result.intent # NoIntent
\* the intents that have a handler in _intent_map
RegisteredIntents == {i \in Intents : intent_map[i] # NoAgent}

\* C11: after any registrations, routing an intent that is not registered
\* invokes no handler and returns success=false with code UNKNOWN_INTENT and
\* details whose available_intents is the list get_available_intents returns,
\* holding each registered intent once and nothing else.
C11_UnknownIntentListsRegistered ==
    (Routed /\ route_result.intent \notin RegisteredIntents) =>
        LET response == route_result.response
            listed == response.available_intents
        IN /\ route_result.invoked = <<>>
           /\ ~route_result.raised
           /\ response.success = FALSE
           /\ response.code = "UNKNOWN_INTENT"
           /\ listed = get_available_intents
           /\ {listed[k] : k \in 1..Len(listed)} = RegisteredIntents
           /\ \A k, l \in 1..Len(listed) : listed[k] = listed[l] => k = l

\* an unknown intent routed on a router holding one registered intent, after
\* a registration that failed
C11_Witness ==
    /\ Routed
    /\ route_result.intent \in Intents \ RegisteredIntents
    /\ Len(route_result.response.available_intents) = 1
    /\ \E k \in 1..Len(register_log) : register_log[k].raised

\* C12: routing a registered intent invokes the handler registered for it,
\* once, and no other; a Response that comes back carries that handler's
\* name and the router's measured execution time, whatever the handler put
\* in those fields.
C12_RoutedToRegisteredHandlerAndStamped ==
    (Routed /\ route_result.intent \in RegisteredIntents) =>
        /\ route_result.invoked = <<intent_map[route_result.intent]>>
        /\ ~route_result.raised =>
              /\ route_result.response.agent_name =
                     intent_map[route_result.intent]
              /\ route_result.response.execution_time_ms = "measured"

\* a handler that filled in both metadata fields itself was routed to, on a
\* router holding two handlers
C12_Witness ==
    /\ Routed
    /\ route_result.behaviour = "returns_stamped"
    /\ route_result.response.agent_name = intent_map[route_result.intent]
    /\ Cardinality({intent_map[i] : i \in RegisteredIntents}) = 2

\* C26: register_agent is atomic on failure: when it raises the
\* duplicate-intent error the intent map is what it was before the call, so
\* no intent of the rejected handler, those listed before the conflicting
\* one included, is routable afterwards.
C26_FailedRegistrationLeavesMapUnchanged ==
    \A k \in 1..Len(register_log) :
        register_log[k].raised =>
            /\ register_log[k].after = register_log[k].before
            /\ k = Len(register_log) =>
                  \A x \in Intents :
                      register_log[k].before[x] = NoAgent =>
                          intent_map_get(intent_map, x) = NoAgent

(***************************************************************************)
(* Claims about the default agents (HandlerSpec)                           *)
(***************************************************************************)
HandleCalled == handle_result.agent # NoAgent

\* C16: each default handler returns a Response for every request and lets
\* no exception out of handle(): a validation failure, an authorization
\* failure or an integration fault comes back as success=false with a
\* structured error, so route returns a Response too.
C16_DefaultHandlersAlwaysRespond ==
    HandleCalled =>
        /\ handle_result.result.outcome = "response"
        /\ handle_result.result.escaped = "none"
        /\ (\/ ~handle_result.valid
            \/ handle_result.fault
            \/ handle_result.result.authorize_outcome \notin {"none", "OK"}) =>
              /\ ~handle_result.result.success
              /\ handle_result.result.code # "none"

\* C17: every authorization decision taken while a request is handled is
\* followed by an audit record of that request: outcome success when
\* authorize passed and the operation ran, a non-success outcome when
\* authorize raised, produced before the Response is returned.
C17_AuthorizationDecisionAudited ==
    (HandleCalled /\ handle_result.result.authorize_called) =>
        LET r == handle_result.result IN
        /\ (r.authorize_outcome = "OK" /\ r.success) =>
              \E k \in 1..Len(r.audit) : r.audit[k] = "success"
        /\ r.authorize_outcome # "OK" =>
              \E k \in 1..Len(r.audit) : r.audit[k] # "success"

\* the operation name the handler of the latest request handed to
\* authorize: each handler passes the literal of its own intent
AuthorizedOperation == handle_result.intent

\* C30: every operation name a default handler passes to the authorization
\* gate has a policy in the policy registry, so no request is denied with
\* POLICY_NOT_FOUND.
C30_HandlerOperationsHavePolicies ==
    (HandleCalled /\ handle_result.result.authorize_called) =>
        /\ AuthorizedOperation \in DOMAIN POLICIES
        /\ handle_result.result.authorize_outcome # "POLICY_NOT_FOUND"

(***************************************************************************)
(* Claims about active_workflows (ActiveSpec)                              *)
(***************************************************************************)
InProgress(workflow_id) ==
    \E r \in Runs :
        runs[r].pc = "running" /\ runs[r].workflow_id = workflow_id

\* C27: a workflow id is in active_workflows, where generate_workflow_report
\* looks it up, exactly while an execute_workflow call for that id is in
\* progress, on every exit path, also when two runs whose workflows carry
\* the same id overlap on one coordinator.
C27_ActiveExactlyWhileInProgress ==
    \A workflow_id \in WorkflowIds :
        (workflow_id \in DOMAIN active_workflows) <=> InProgress(workflow_id)

(***************************************************************************)
(* Claims about the entry point (EntrySpec)                                *)
(***************************************************************************)
\* C29: entry-point initialization is all-or-nothing: whenever
\* _ensure_initialized returns a router, all three default agents are
\* registered on it, also after an earlier call in which the registration
\* raised.
C29_InitializationAllOrNothing ==
    entry_result.outcome = "returned" =>
        entry_result.registered =
            {"identity_agent", "device_agent", "ticket_agent"}

====
